---- MODULE Spec2Model ----
(***************************************************************************)
(* Model of the two operator scripts of the Heliosinger streaming setup:   *)
(*   scripts/check_stream_health.py  - the Health Poller loop              *)
(*   scripts/obs_setup_helper.py     - the Setup Checker, run once         *)
(* The two scripts share nothing; each has its own specification           *)
(* (PollerSpec, SetupSpec) over its own variables.                         *)
(***************************************************************************)
EXTENDS Integers, Sequences, FiniteSets, TLC

(***************************************************************************)
(* Bounds of the model.                                                    *)
(***************************************************************************)
\* the consecutive-failure counter is unbounded in the code; the model stops
\* drawing failing probes once it has reached this value
MaxFailures == 4
\* number of completed iterations the model remembers
HistLen == 2

(***************************************************************************)
(* Program constants.                                                      *)
(***************************************************************************)
HEALTH_CHECK_INTERVAL == 30
\* timeout=5 of both urlopen calls of check_stream_health.py
PROBE_TIMEOUT == 5
HTTP_OK == 200

\* the period of the gate of the API checks, HEALTH_CHECK_INTERVAL * 2
GatePeriod == HEALTH_CHECK_INTERVAL * 2

(***************************************************************************)
(* What urllib.request.urlopen can do.  The default opener returns a       *)
(* response for 2xx statuses only; 4xx/5xx raise HTTPError (a URLError),   *)
(* connection failures raise URLError and a read timeout raises a plain    *)
(* exception.  kind is the class of the outcome, status the HTTP status    *)
(* (0 when there is none), text the str() of the exception.                *)
(***************************************************************************)
Response(s) == [kind |-> "response", status |-> s, text |-> <<>>]
HTTPError(s, reason) ==
    [kind |-> "HTTPError", status |-> s,
     text |-> <<"HTTP Error ", ToString(s), ": ", reason>>]
URLError(reason) ==
    [kind |-> "URLError", status |-> 0,
     text |-> <<"<urlopen error ", reason, ">">>]
OtherError(msg) == [kind |-> "Exception", status |-> 0, text |-> <<msg>>]

GetOutcomes ==
    { Response(200), Response(204),
      HTTPError(404, "Not Found"), HTTPError(500, "Internal Server Error"),
      URLError("[Errno 61] Connection refused"),
      OtherError("timed out") }

\* a probe returns after 0 .. timeout seconds
ProbeDurations == 0 .. PROBE_TIMEOUT
\* the model lets a probe of an API endpoint return at once or at its timeout
ApiDurations == {0, PROBE_TIMEOUT}

\* the value a function returns, or the exception that leaves it
Returned(v) == [raised |-> FALSE, value |-> v]
Raised(o) == [raised |-> TRUE, value |-> o.text]

\* f-string concatenation of message parts
Concat(a, b) == a \o b
Contains(msg, part) == \E i \in 1 .. Len(msg) : msg[i] = part

(***************************************************************************)
(* check_stream_health.py                                                  *)
(***************************************************************************)
check_stream_accessible_uncaught(o) ==
    IF o.kind = "response"
    THEN IF o.status = HTTP_OK
         THEN Returned([ok |-> TRUE, msg |-> <<"Stream page is accessible">>])
         ELSE Returned([ok |-> FALSE,
                        msg |-> <<"Stream returned status ", ToString(o.status)>>])
    ELSE IF o.kind \in {"URLError", "HTTPError"}
    THEN Returned([ok |-> FALSE,
                   msg |-> Concat(<<"Cannot connect to stream: ">>, o.text)])
    ELSE Raised(o)

check_stream_accessible_2xx(o) ==
    IF o.kind = "response"
    THEN Returned([ok |-> TRUE, msg |-> <<"Stream page is accessible">>])
    ELSE IF o.kind \in {"URLError", "HTTPError"}
    THEN Returned([ok |-> FALSE,
                   msg |-> Concat(<<"Cannot connect to stream: ">>, o.text)])
    ELSE Returned([ok |-> FALSE,
                   msg |-> Concat(<<"Error checking stream: ">>, o.text)])

check_stream_accessible(o) ==
    IF o.kind = "response"
    THEN IF o.status = HTTP_OK
         THEN Returned([ok |-> TRUE, msg |-> <<"Stream page is accessible">>])
         ELSE Returned([ok |-> FALSE,
                        msg |-> <<"Stream returned status ", ToString(o.status)>>])
    ELSE IF o.kind \in {"URLError", "HTTPError"}
    THEN Returned([ok |-> FALSE,
                   msg |-> Concat(<<"Cannot connect to stream: ">>, o.text)])
    ELSE Returned([ok |-> FALSE,
                   msg |-> Concat(<<"Error checking stream: ">>, o.text)])

endpoints ==
    << "http://localhost:5173/api/space-weather/comprehensive",
       "http://localhost:5173/api/solar-wind/current" >>

\* the body of the for loop of check_api_endpoints for one endpoint; the
\* modelled exception texts are shorter than 50 characters, so str(e)[:50]
\* keeps them whole
api_endpoint_result(o) ==
    IF o.kind = "response"
    THEN IF o.status = HTTP_OK
         THEN <<"OK">>
         ELSE <<"Status ", ToString(o.status)>>
    ELSE Concat(<<"Error: ">>, o.text)

check_api_endpoints(outs) ==
    Returned([i \in 1 .. Len(endpoints) |-> api_endpoint_result(outs[i])])

\* lines 80-85: the new value of consecutive_failures
update_failures_no_reset(accessible, n) == IF accessible THEN n ELSE n + 1

update_failures(accessible, n) == IF accessible THEN 0 ELSE n + 1

\* line 87
advisory_due(n) == n >= 3

\* line 92, on the clock value time.time() returned
api_check_due(now) == now % (HEALTH_CHECK_INTERVAL * 2) < HEALTH_CHECK_INTERVAL

\* print_status: the colour class of the printed line
print_status(status, what) == [status |-> status, what |-> what]

VARIABLES
    pc,                   \* position of main() of check_stream_health.py
    clock,                \* wall clock, modulo GatePeriod
    consecutive_failures,
    probe_in,             \* what urlopen did in the latest primary probe
    accessible, message,  \* what check_stream_accessible returned
    failures_before,      \* consecutive_failures when the iteration began
    clock_read,           \* the time.time() value read at line 92
    api_checked,          \* this iteration called check_api_endpoints
    lines,                \* lines printed so far in this iteration
    iter_log,             \* the latest HistLen completed iterations
    stopped_printed,      \* "Monitoring stopped by user" was printed
    exit_status,          \* <<>> while running, <<code>> once exited
    \* main() of obs_setup_helper.py
    spc,                  \* position of main()
    next_check,           \* index in checks of the check to run next
    results,              \* the results dict of main()
    run_log,              \* the steps main() has performed, in order
    out,                  \* lines printed by the latest step
    last_outcome,         \* what the latest check call returned or raised
    raised_names,         \* the checks that raised
    dev_in,               \* what the socket and urlopen did in check_dev_server
    file,                 \* text of obs_settings_template.json
    file_before,          \* its text before the template step
    write_in,             \* how the write of the template step went
    write_attempted,
    all_passed,
    setup_exit            \* <<>> while running, <<code>> once exited

pollerVars ==
    << pc, clock, consecutive_failures, probe_in, accessible, message,
       failures_before, clock_read, api_checked, lines, iter_log,
       stopped_printed, exit_status >>

setupVars ==
    << spc, next_check, results, run_log, out, last_outcome, raised_names,
       dev_in, file, file_before, write_in, write_attempted, all_passed,
       setup_exit >>

vars == << pollerVars, setupVars >>

NoProbe == [kind |-> "none", status |-> 0, text |-> <<>>]

LoopPcs == {"probe", "classify", "advise", "gate", "api", "sleep"}

PollerInit ==
    /\ pc = "probe"
    /\ clock \in 0 .. GatePeriod - 1
    /\ consecutive_failures = 0
    /\ probe_in = NoProbe
    /\ accessible = FALSE
    /\ message = <<>>
    /\ failures_before = 0
    /\ clock_read = 0
    /\ api_checked = FALSE
    /\ lines = <<>>
    /\ iter_log = <<>>
    /\ stopped_printed = FALSE
    /\ exit_status = <<>>

Tick(d) == (clock + d) % GatePeriod

\* an exception that nothing catches ends the process with a traceback
Crash ==
    /\ pc' = "exited"
    /\ exit_status' = <<1>>

\* line 79
ProbePrimary ==
    /\ pc = "probe"
    /\ \E o \in GetOutcomes, d \in ProbeDurations :
         /\ (o = Response(HTTP_OK) \/ consecutive_failures < MaxFailures)
         /\ probe_in' = o
         /\ clock' = Tick(d)
         /\ failures_before' = consecutive_failures
         /\ LET r == check_stream_accessible(o) IN
              IF r.raised
              THEN /\ Crash
                   /\ UNCHANGED <<accessible, message>>
              ELSE /\ pc' = "classify"
                   /\ accessible' = r.value.ok
                   /\ message' = r.value.msg
                   /\ UNCHANGED exit_status
    /\ UNCHANGED << consecutive_failures, clock_read, api_checked, lines,
                    iter_log, stopped_printed >>
    /\ UNCHANGED setupVars

\* lines 80-85
Classify ==
    /\ pc = "classify"
    /\ consecutive_failures' = update_failures(accessible, consecutive_failures)
    /\ lines' = Append(lines, print_status(IF accessible THEN "OK" ELSE "ERROR",
                                           "stream"))
    /\ pc' = IF accessible THEN "gate" ELSE "advise"
    /\ UNCHANGED << clock, probe_in, accessible, message, failures_before,
                    clock_read, api_checked, iter_log, stopped_printed,
                    exit_status >>
    /\ UNCHANGED setupVars

\* lines 87-89
Advise ==
    /\ pc = "advise"
    /\ lines' = IF advisory_due(consecutive_failures)
                THEN Append(lines, print_status("ERROR", "advisory"))
                ELSE lines
    /\ pc' = "gate"
    /\ UNCHANGED << clock, consecutive_failures, probe_in, accessible, message,
                    failures_before, clock_read, api_checked, iter_log,
                    stopped_printed, exit_status >>
    /\ UNCHANGED setupVars

\* line 92
GateOnlyWhenAccessible ==
    /\ pc = "gate"
    /\ clock_read' = clock
    /\ api_checked' = (accessible /\ api_check_due(clock))
    /\ pc' = IF accessible /\ api_check_due(clock) THEN "api" ELSE "sleep"
    /\ UNCHANGED << clock, consecutive_failures, probe_in, accessible, message,
                    failures_before, lines, iter_log, stopped_printed,
                    exit_status >>
    /\ UNCHANGED setupVars

Gate ==
    /\ pc = "gate"
    /\ clock_read' = clock
    /\ api_checked' = api_check_due(clock)
    /\ pc' = IF api_check_due(clock) THEN "api" ELSE "sleep"
    /\ UNCHANGED << clock, consecutive_failures, probe_in, accessible, message,
                    failures_before, lines, iter_log, stopped_printed,
                    exit_status >>
    /\ UNCHANGED setupVars

ApiLine(result) ==
    IF result = <<"OK">> THEN print_status("OK", "api")
    ELSE print_status("WARNING", "api")

\* lines 93-98
CheckApi ==
    /\ pc = "api"
    /\ \E outs \in [1 .. Len(endpoints) -> GetOutcomes],
          durs \in [1 .. Len(endpoints) -> ApiDurations] :
         /\ clock' = Tick(durs[1] + durs[2])
         /\ LET r == check_api_endpoints(outs) IN
              IF r.raised
              THEN /\ Crash
                   /\ UNCHANGED lines
              ELSE /\ pc' = "sleep"
                   /\ lines' = lines \o [i \in 1 .. Len(endpoints) |->
                                           ApiLine(r.value[i])]
                   /\ UNCHANGED exit_status
    /\ UNCHANGED << consecutive_failures, probe_in, accessible, message,
                    failures_before, clock_read, api_checked, iter_log,
                    stopped_printed >>
    /\ UNCHANGED setupVars

Advised(ls) == \E i \in 1 .. Len(ls) : ls[i].what = "advisory"

Remember(log, rec) ==
    IF Len(log) < HistLen THEN Append(log, rec) ELSE Append(Tail(log), rec)

\* line 100, and back to the head of the while loop
Sleep ==
    /\ pc = "sleep"
    /\ clock' = Tick(HEALTH_CHECK_INTERVAL)
    /\ iter_log' = Remember(iter_log,
                            [accessible |-> accessible,
                             failures |-> consecutive_failures,
                             advisory |-> Advised(lines),
                             api |-> api_checked])
    /\ lines' = <<>>
    /\ api_checked' = FALSE
    /\ pc' = "probe"
    /\ UNCHANGED << consecutive_failures, probe_in, accessible, message,
                    failures_before, clock_read, stopped_printed, exit_status >>
    /\ UNCHANGED setupVars

\* Ctrl+C: KeyboardInterrupt is raised wherever the loop is; it is not an
\* Exception, so the probes' handlers let it through to line 102
Interrupt ==
    /\ pc \in LoopPcs
    /\ pc' = "handler"
    /\ UNCHANGED << clock, consecutive_failures, probe_in, accessible, message,
                    failures_before, clock_read, api_checked, lines, iter_log,
                    stopped_printed, exit_status >>
    /\ UNCHANGED setupVars

\* lines 102-104
Handler ==
    /\ pc = "handler"
    /\ stopped_printed' = TRUE
    /\ exit_status' = <<0>>
    /\ pc' = "exited"
    /\ UNCHANGED << clock, consecutive_failures, probe_in, accessible, message,
                    failures_before, clock_read, api_checked, lines, iter_log >>
    /\ UNCHANGED setupVars

PollerNext ==
    \/ ProbePrimary
    \/ Classify
    \/ Advise
    \/ Gate
    \/ CheckApi
    \/ Sleep
    \/ Interrupt
    \/ Handler


(***************************************************************************)
(* obs_setup_helper.py                                                     *)
(***************************************************************************)
\* Python values a check can hand back to main()
PyTrue == "True"
PyFalse == "False"
PyNone == "None"
Truthy(v) == v = PyTrue

\* the print_* helpers: the level of the line and its text
print_success(text) == [level |-> "success", text |-> text]
print_warning(text) == [level |-> "warning", text |-> text]
print_error(text) == [level |-> "error", text |-> text]
print_info(text) == [level |-> "info", text |-> text]

\* what a check hands back: its return value and the lines it printed
Ret(v, printed) == Returned([ret |-> v, out |-> printed])

obs_paths ==
    << "/Applications/OBS.app", "/Applications/OBS Studio.app",
       "/usr/local/bin/obs" >>

RECURSIVE FirstExisting(_, _)
FirstExisting(existing, i) ==
    IF i > Len(obs_paths) THEN 0
    ELSE IF obs_paths[i] \in existing THEN i
    ELSE FirstExisting(existing, i + 1)

\* existing: the paths for which os.path.exists is true
check_obs_installed(existing) ==
    LET i == FirstExisting(existing, 1) IN
    IF i > 0
    THEN Ret(PyTrue, <<print_success(<<"OBS Studio found at: ", obs_paths[i]>>)>>)
    ELSE Ret(PyFalse, <<print_error(<<"OBS Studio not found">>),
                        print_info(<<"Install with: brew install --cask obs">>)>>)

\* what subprocess.run can do: return a completed process or raise
Completed(rc, stdout) ==
    [kind |-> "completed", returncode |-> rc, stdout |-> stdout, text |-> <<>>]
RunError(msg) ==
    [kind |-> "Exception", returncode |-> 0, stdout |-> <<>>, text |-> <<msg>>]

ProfilerOutcomes ==
    { Completed(0, <<"Chipset Model: Apple M1", "Metal">>),
      Completed(0, <<"Chipset Model: Intel HD Graphics">>),
      RunError("[Errno 2] No such file or directory: 'system_profiler'"),
      RunError("Command timed out after 10 seconds") }

\* p: what subprocess.run(["system_profiler", ...]) did
check_hardware_encoding(p) ==
    IF p.kind = "completed"
    THEN IF Contains(p.stdout, "Metal")
         THEN Ret(PyTrue,
                  <<print_success(<<"Hardware encoding supported (Metal detected)">>),
                    print_info(<<"Use 'Apple VT H264 Hardware Encoder' in OBS">>)>>)
         ELSE Ret(PyFalse,
                  <<print_warning(<<"Metal not detected - may need software encoding">>)>>)
    ELSE Ret(PyFalse,
             <<print_warning(Concat(<<"Could not check hardware encoding: ">>, p.text))>>)

\* what sock.connect_ex can do: return an errno (0 on success) or raise
Connected == [kind |-> "returned", errno |-> 0, text |-> <<>>]
Refused == [kind |-> "returned", errno |-> 61, text |-> <<>>]
SockError == [kind |-> "Exception", errno |-> 0,
              text |-> <<"[Errno 8] nodename nor servname provided">>]
SockOutcomes == {Connected, Refused, SockError}

\* sock: what connect_ex did; get: what urlopen did (used when connected)
check_dev_server(sock, get) ==
    IF sock.kind = "Exception"
    THEN Ret(PyFalse, <<print_error(Concat(<<"Could not check dev server: ">>,
                                           sock.text))>>)
    ELSE IF sock.errno = 0
    THEN IF get.kind = "response"
         THEN IF get.status = HTTP_OK
              THEN Ret(PyTrue,
                       <<print_success(<<"Dev server is running and stream page is accessible">>)>>)
              ELSE Ret(PyNone, <<>>)
         ELSE Ret(PyFalse,
                  <<print_warning(<<"Dev server is running but /stream page may not be accessible">>)>>)
    ELSE Ret(PyFalse,
             <<print_error(<<"Dev server is not running on port 5173">>),
               print_info(<<"Start with: cd /Volumes/VIXinSSD/SolarChime && npm run dev">>)>>)

\* the profiles directory: missing, listed with n entries, or not listable
ProfilesAbsent == [kind |-> "absent", count |-> 0, text |-> <<>>]
ProfilesListed(n) == [kind |-> "listed", count |-> n, text |-> <<>>]
ProfilesUnreadable ==
    [kind |-> "Exception", count |-> 0, text |-> <<"[Errno 13] Permission denied">>]
ProfilesOutcomes ==
    {ProfilesAbsent, ProfilesListed(0), ProfilesListed(2), ProfilesUnreadable}

check_obs_config(base_exists, profiles) ==
    IF ~base_exists
    THEN Ret(PyFalse, <<print_warning(<<"OBS configuration directory not found">>),
                        print_info(<<"OBS may not have been launched yet">>)>>)
    ELSE IF profiles.kind = "Exception"
    THEN Raised(profiles)
    ELSE IF profiles.kind = "absent"
    THEN Ret(PyTrue, <<print_success(<<"OBS configuration directory found">>)>>)
    ELSE IF profiles.count > 0
    THEN Ret(PyTrue, <<print_success(<<"OBS configuration directory found">>),
                       print_info(<<"Found ", ToString(profiles.count),
                                    " OBS profile(s)">>)>>)
    ELSE Ret(PyTrue, <<print_success(<<"OBS configuration directory found">>),
                       print_warning(<<"No OBS profiles found - create one in OBS">>)>>)

SysctlOutcomes ==
    { Completed(0, <<"17179869184">>), Completed(1, <<>>),
      RunError("[Errno 2] No such file or directory: 'sysctl'") }
WhichOutcomes ==
    { Completed(0, <<"/usr/bin/caffeinate">>), Completed(1, <<>>),
      RunError("[Errno 2] No such file or directory: 'which'") }

\* the function has no return statement: every path hands back None
check_system_resources(system, sysctl, which) ==
    LET cpu == <<print_info(<<"CPU cores: ", "8">>)>>
        failed(e) == print_warning(Concat(<<"Could not check system resources: ">>,
                                          e.text))
        mem == IF system = "Darwin" /\ sysctl.returncode = 0
               THEN <<print_info(<<"Total RAM: ", "16.0", " GB">>)>>
               ELSE <<>>
    IN  IF system = "Darwin" /\ sysctl.kind = "Exception"
        THEN Ret(PyNone, Append(cpu, failed(sysctl)))
        ELSE IF which.kind = "Exception"
        THEN Ret(PyNone, Append(cpu \o mem, failed(which)))
        ELSE IF which.returncode = 0
        THEN Ret(PyNone, Append(cpu \o mem,
                 print_success(<<"caffeinate available (for preventing sleep)">>)))
        ELSE Ret(PyNone, Append(cpu \o mem, print_warning(<<"caffeinate not found">>)))

(***************************************************************************)
(* The settings template and its JSON text.  A Python value is a str, an   *)
(* int, a bool or a dict (its items in insertion order); the JSON text is  *)
(* a sequence of tokens.                                                   *)
(***************************************************************************)
Str(x) == [ty |-> "str", s |-> x, n |-> 0, items |-> <<>>]
Int_(x) == [ty |-> "int", s |-> "", n |-> x, items |-> <<>>]
Bool(b) == [ty |-> "bool", s |-> "", n |-> IF b THEN 1 ELSE 0, items |-> <<>>]
Dict(items) == [ty |-> "dict", s |-> "", n |-> 0, items |-> items]

Keys(d) == { d.items[i][1] : i \in 1 .. Len(d.items) }
Get(d, k) == LET i == CHOOSE j \in 1 .. Len(d.items) : d.items[j][1] = k
             IN  d.items[i][2]

\* lines 139-163
settings ==
    Dict(<< <<"video", Dict(<< <<"base_resolution", Str("1920x1080")>>,
                               <<"output_resolution", Str("1920x1080")>>,
                               <<"fps", Int_(30)>> >>)>>,
            <<"output", Dict(<< <<"mode", Str("simple")>>,
                                <<"video_bitrate", Int_(6000)>>,
                                <<"audio_bitrate", Int_(160)>>,
                                <<"encoder", Str("Apple VT H264 Hardware Encoder")>> >>)>>,
            <<"audio", Dict(<< <<"sample_rate", Int_(48000)>>,
                               <<"channels", Int_(2)>> >>)>>,
            <<"browser_source", Dict(<< <<"url", Str("http://localhost:5173/stream")>>,
                                        <<"width", Int_(1920)>>,
                                        <<"height", Int_(1080)>>,
                                        <<"fps", Int_(30)>>,
                                        <<"shutdown_when_not_visible", Bool(TRUE)>>,
                                        <<"refresh_when_scene_active", Bool(TRUE)>> >>)>> >>)

Tok(t, s, n) == [tok |-> t, s |-> s, n |-> n]

\* json.dump: the JSON text of a Python value
RECURSIVE json_dump(_), DumpItems(_, _)
json_dump(v) ==
    IF v.ty = "dict" THEN <<Tok("{", "", 0)>> \o DumpItems(v.items, 1) \o <<Tok("}", "", 0)>>
    ELSE IF v.ty = "str" THEN <<Tok("string", v.s, 0)>>
    ELSE IF v.ty = "int" THEN <<Tok("number", "", v.n)>>
    ELSE IF v.n = 1 THEN <<Tok("true", "", 0)>>
    ELSE <<Tok("false", "", 0)>>
DumpItems(items, i) ==
    IF i > Len(items) THEN <<>>
    ELSE <<Tok("key", items[i][1], 0)>> \o json_dump(items[i][2])
         \o DumpItems(items, i + 1)

\* a dict assignment d[k] = v: a repeated key keeps its place, the last value wins
SetItem(items, k, v) ==
    IF \E i \in 1 .. Len(items) : items[i][1] = k
    THEN [i \in 1 .. Len(items) |-> IF items[i][1] = k THEN <<k, v>> ELSE items[i]]
    ELSE Append(items, <<k, v>>)

ParseFail == [ok |-> FALSE, val |-> Dict(<<>>), next |-> 0]

\* json.load: the Python value of a JSON text, from token i on
RECURSIVE ParseValue(_, _), ParseMembers(_, _, _)
ParseValue(t, i) ==
    IF i > Len(t) THEN ParseFail
    ELSE IF t[i].tok = "{" THEN ParseMembers(t, i + 1, <<>>)
    ELSE IF t[i].tok = "string" THEN [ok |-> TRUE, val |-> Str(t[i].s), next |-> i + 1]
    ELSE IF t[i].tok = "number" THEN [ok |-> TRUE, val |-> Int_(t[i].n), next |-> i + 1]
    ELSE IF t[i].tok = "true" THEN [ok |-> TRUE, val |-> Bool(TRUE), next |-> i + 1]
    ELSE IF t[i].tok = "false" THEN [ok |-> TRUE, val |-> Bool(FALSE), next |-> i + 1]
    ELSE ParseFail
ParseMembers(t, i, acc) ==
    IF i > Len(t) THEN ParseFail
    ELSE IF t[i].tok = "}" THEN [ok |-> TRUE, val |-> Dict(acc), next |-> i + 1]
    ELSE IF t[i].tok = "key"
    THEN LET v == ParseValue(t, i + 1) IN
         IF v.ok THEN ParseMembers(t, v.next, SetItem(acc, t[i].s, v.val))
         ELSE ParseFail
    ELSE ParseFail

\* ok is false where json.load raises (malformed text, or text after the value)
json_load(t) ==
    LET r == ParseValue(t, 1) IN
    IF r.ok /\ r.next = Len(t) + 1 THEN r ELSE ParseFail

\* what the template file can hold before a run: nothing, the template of an
\* older layout with a fifth section, or text that is not JSON
OlderTemplate ==
    json_dump(Dict(Append(settings.items,
                          <<"stream", Dict(<< <<"service", Str("YouTube - RTMPS")>> >>)>>)))
PriorFiles == { <<>>, OlderTemplate, <<Tok("string", "notes", 0), Tok("}", "", 0)>> }

\* open(template_path, 'w') on an existing text: truncation
open_append(prior) == prior

open_w(prior) == <<>>

\* how the write of lines 166-167 can go: "ok", "open" (open raises), or
\* "dump" with the number of tokens that reached the file before the error
\* the model cuts a failing dump before its first token, half way, or before
\* its last token
DumpCuts ==
    LET n == Len(json_dump(settings)) IN {0, n \div 2, n - 1}
WriteOutcomes ==
    { [kind |-> "ok", cut |-> 0], [kind |-> "open", cut |-> 0] }
    \cup { [kind |-> "dump", cut |-> k] : k \in DumpCuts }

WriteError(w) ==
    [text |-> IF w.kind = "open" THEN <<"[Errno 13] Permission denied">>
              ELSE <<"[Errno 28] No space left on device">>]

\* lines 137-170: the new text of the file and what the function hands back
generate_obs_settings_template(prior, w) ==
    IF w.kind = "open"
    THEN [file |-> prior, result |-> Raised(WriteError(w))]
    ELSE IF w.kind = "dump"
    THEN [file |-> open_w(prior) \o SubSeq(json_dump(settings), 1, w.cut),
          result |-> Raised(WriteError(w))]
    ELSE [file |-> open_w(prior) \o json_dump(settings),
          result |-> Ret("obs_settings_template.json",
                         <<print_success(<<"Settings template saved to: ",
                                           "obs_settings_template.json">>)>>)]

(***************************************************************************)
(* main() of obs_setup_helper.py                                           *)
(***************************************************************************)
checks_resources_first ==
    << "System Resources", "OBS Installation", "Hardware Encoding",
       "Dev Server", "OBS Configuration" >>

\* lines 253-259, in the insertion order of the dict
checks ==
    << "OBS Installation", "Hardware Encoding", "Dev Server",
       "OBS Configuration", "System Resources" >>

\* lines 264-268: what main() makes of a check's outcome
main_try_uncaught(name, r) ==
    IF r.raised
    THEN [propagated |-> TRUE, result |-> PyFalse, out |-> <<>>]
    ELSE [propagated |-> FALSE, result |-> r.value.ret, out |-> r.value.out]

main_try(name, r) ==
    IF r.raised
    THEN [propagated |-> FALSE, result |-> PyFalse,
          out |-> <<print_error(Concat(<<"Error checking ", name, ": ">>, r.value))>>]
    ELSE [propagated |-> FALSE, result |-> r.value.ret, out |-> r.value.out]

\* line 287: all(results.values())
all_values(res) == \A k \in DOMAIN res : Truthy(res[k])

NoCall == [raised |-> FALSE, value |-> [ret |-> PyNone, out |-> <<>>]]
NoSock == [kind |-> "none", errno |-> 0, text |-> <<>>]
NoWrite == [kind |-> "none", cut |-> 0]

SetupInit ==
    /\ spc = "checks"
    /\ next_check = 1
    /\ results = <<>>
    /\ run_log = <<>>
    /\ out = <<>>
    /\ last_outcome = NoCall
    /\ raised_names = {}
    /\ dev_in = [sock |-> NoSock, get |-> NoProbe]
    /\ file \in PriorFiles
    /\ file_before = <<>>
    /\ write_in = NoWrite
    /\ write_attempted = FALSE
    /\ all_passed = FALSE
    /\ setup_exit = <<>>

\* one turn of the for loop of lines 262-268, for the check `name` whose call
\* went as r
RunCheck(name, r) ==
    /\ spc = "checks"
    /\ next_check <= Len(checks)
    /\ checks[next_check] = name
    /\ last_outcome' = r
    /\ LET m == main_try(name, r) IN
         IF m.propagated
         THEN /\ spc' = "crashed"
              /\ setup_exit' = <<1>>
              /\ UNCHANGED << next_check, results, run_log, out, raised_names >>
         ELSE /\ results' = (name :> m.result) @@ results
              /\ out' = m.out
              /\ run_log' = Append(run_log, name)
              /\ raised_names' = IF r.raised THEN raised_names \cup {name}
                                 ELSE raised_names
              /\ next_check' = next_check + 1
              /\ spc' = IF next_check = Len(checks) THEN "template" ELSE "checks"
              /\ UNCHANGED setup_exit
    /\ UNCHANGED << file, file_before, write_in, write_attempted, all_passed >>
    /\ UNCHANGED pollerVars

CheckObsInstalled ==
    /\ \E existing \in SUBSET { obs_paths[i] : i \in 1 .. Len(obs_paths) } :
         RunCheck("OBS Installation", check_obs_installed(existing))
    /\ UNCHANGED dev_in

CheckHardwareEncoding ==
    /\ \E p \in ProfilerOutcomes :
         RunCheck("Hardware Encoding", check_hardware_encoding(p))
    /\ UNCHANGED dev_in

CheckDevServer ==
    \E sock \in SockOutcomes, get \in GetOutcomes :
        /\ RunCheck("Dev Server", check_dev_server(sock, get))
        /\ dev_in' = [sock |-> sock, get |-> get]

CheckObsConfig ==
    /\ \E base_exists \in BOOLEAN, profiles \in ProfilesOutcomes :
         RunCheck("OBS Configuration", check_obs_config(base_exists, profiles))
    /\ UNCHANGED dev_in

CheckSystemResources ==
    /\ \E system \in {"Darwin", "Linux"}, sysctl \in SysctlOutcomes,
          which \in WhichOutcomes :
         RunCheck("System Resources", check_system_resources(system, sysctl, which))
    /\ UNCHANGED dev_in

\* lines 270-277
GenerateTemplate ==
    /\ spc = "template"
    /\ \E w \in WriteOutcomes :
         LET g == generate_obs_settings_template(file, w) IN
           /\ write_in' = w
           /\ file' = g.file
           /\ out' = IF g.result.raised
                     THEN <<print_warning(Concat(<<"Could not generate template: ">>,
                                                 g.result.value))>>
                     ELSE Append(g.result.value.out,
                                 print_info(<<"Reference template: ",
                                              g.result.value.ret>>))
    /\ file_before' = file
    /\ write_attempted' = TRUE
    /\ run_log' = Append(run_log, "template")
    /\ spc' = "summary"
    /\ UNCHANGED << next_check, results, last_outcome, raised_names, dev_in,
                    all_passed, setup_exit >>
    /\ UNCHANGED pollerVars

\* lines 279-300, and the end of main()
Summary ==
    /\ spc = "summary"
    /\ all_passed' = all_values(results)
    /\ out' = IF all_values(results)
              THEN <<print_success(<<"All checks passed! You're ready to stream.">>)>>
              ELSE <<print_warning(<<"Some checks failed. Review the issues above.">>),
                     print_info(<<"Run this script again after fixing issues.">>)>>
    /\ run_log' = Append(run_log, "summary")
    /\ setup_exit' = <<0>>
    /\ spc' = "done"
    /\ UNCHANGED << next_check, results, last_outcome, raised_names, dev_in,
                    file, file_before, write_in, write_attempted >>
    /\ UNCHANGED pollerVars

SetupNext ==
    \/ CheckObsInstalled
    \/ CheckHardwareEncoding
    \/ CheckDevServer
    \/ CheckObsConfig
    \/ CheckSystemResources
    \/ GenerateTemplate
    \/ Summary

\* each script runs alone: the other one stays as it was started
PollerStart == PollerInit /\ SetupInit /\ file = <<>>
SetupStart == SetupInit /\ PollerInit /\ clock = 0

PollerSpec == PollerStart /\ [][PollerNext]_vars
SetupSpec == SetupStart /\ [][SetupNext]_vars
FairSetupSpec == SetupSpec /\ WF_vars(SetupNext)

(***************************************************************************)
(* Properties of the Health Poller (PollerSpec, FairPollerSpec).           *)
(***************************************************************************)
Last(q) == q[Len(q)]
PrimaryDone == pc \in {"gate", "api", "sleep"}

\* C2: once an iteration has handled its primary probe, the counter is 0 if
\* the probe was OK and one more than before the iteration if it was ERROR,
\* and the advisory line was printed in the iteration exactly if the counter
\* is now >= 3; over consecutive completed iterations the counts follow the
\* same rule, so two failures then a success give 1, 2, 0 with no advisory.
C2_CounterAndAdvisory ==
    /\ PrimaryDone =>
         /\ accessible => consecutive_failures = 0
         /\ ~accessible => consecutive_failures = failures_before + 1
         /\ Advised(lines) <=> consecutive_failures >= 3
         /\ Len(iter_log) >= 1 => failures_before = Last(iter_log).failures
    /\ \A i \in 1 .. Len(iter_log) :
         /\ iter_log[i].advisory <=> iter_log[i].failures >= 3
         /\ iter_log[i].accessible => iter_log[i].failures = 0
         /\ (i > 1 /\ ~iter_log[i].accessible) =>
                iter_log[i].failures = iter_log[i - 1].failures + 1

C2_Witness ==
    /\ pc = "sleep"
    /\ accessible
    /\ consecutive_failures = 0
    /\ ~Advised(lines)
    /\ Len(iter_log) = 2
    /\ <<iter_log[1].failures, iter_log[2].failures>> = <<1, 2>>
    /\ ~iter_log[1].advisory /\ ~iter_log[2].advisory

\* C3: of any two consecutive iterations exactly one calls
\* check_api_endpoints.
C3_EverySecondIteration ==
    Len(iter_log) >= 2 =>
        iter_log[Len(iter_log)].api # iter_log[Len(iter_log) - 1].api

\* C4: check_stream_accessible hands back True exactly for a response with
\* status 200; otherwise it hands back False with a message that holds the
\* status code, or the text of the error, and it never raises.
C4_ProbePrimary ==
    probe_in # NoProbe =>
        /\ exit_status # <<1>>
        /\ accessible <=> (probe_in.kind = "response" /\ probe_in.status = 200)
        /\ (~accessible /\ probe_in.kind \in {"response", "HTTPError"}) =>
               Contains(message, ToString(probe_in.status))
        /\ (~accessible /\ probe_in.kind \notin {"response", "HTTPError"}) =>
               \A i \in 1 .. Len(probe_in.text) : Contains(message, probe_in.text[i])

C4_Witness ==
    /\ pc = "classify"
    /\ probe_in = Response(204)
    /\ ~accessible
    /\ message = <<"Stream returned status ", "204">>

\* C6: the loop is left only through the interrupt handler, which prints
\* the stop message and exits with status 0; whatever a probe did, the loop
\* stays in the loop and its next step can be taken (after the sleep, the
\* next probe); an interrupt anywhere in the loop goes to the handler.
C6_ExitOnlyOnInterrupt ==
    /\ [](pc = "exited" => (exit_status = <<0>> /\ stopped_printed))
    /\ [](pc \in LoopPcs =>
            /\ ENABLED (ProbePrimary \/ Classify \/ Advise \/ Gate \/ CheckApi \/ Sleep)
            /\ ENABLED Interrupt)
    /\ [](pc = "handler" => ENABLED Handler)
    /\ [][(pc' = "exited") => (pc = "handler")]_vars
    /\ [][(pc \in LoopPcs) => (pc' \in (LoopPcs \cup {"handler"}))]_vars
    /\ [][(pc = "sleep") => (pc' \in {"probe", "handler"})]_vars
    /\ [][(pc = "handler") => (pc' = "exited" /\ exit_status' = <<0>> /\ stopped_printed')]_vars

C6_Witness ==
    /\ pc = "exited"
    /\ exit_status = <<0>>
    /\ stopped_printed
    /\ probe_in.kind = "Exception"
    /\ Len(iter_log) >= 1
    /\ ~Last(iter_log).accessible

\* C8: whether an iteration calls check_api_endpoints is a function of the
\* clock value it read alone: it does exactly if that value modulo 2 x
\* interval is below the interval, whatever the primary probe returned and
\* whatever the failure counter holds.
C8_GateByClockOnly ==
    pc \in {"api", "sleep"} =>
        (api_checked <=> clock_read % (2 * 30) < 30)

C8_Witness ==
    /\ pc = "api"
    /\ api_checked
    /\ ~accessible
    /\ consecutive_failures = 1
    /\ Len(iter_log) >= 1
    /\ Last(iter_log).accessible
    /\ Last(iter_log).api

(***************************************************************************)
(* Properties of the Setup Checker (SetupSpec, FairSetupSpec).             *)
(***************************************************************************)
BooleanChecks ==
    {"OBS Installation", "Hardware Encoding", "Dev Server", "OBS Configuration"}
AllChecks == BooleanChecks \cup {"System Resources"}
SuccessLine == print_success(<<"All checks passed! You're ready to stream.">>)

\* C1: at the end of main() all_passed is the AND of the four boolean checks
\* alone, and "All checks passed" is reported whenever those four passed.
C1_AggregateOfFourChecks ==
    spc = "done" =>
        /\ all_passed <=> \A k \in BooleanChecks : results[k] = PyTrue
        /\ (\A k \in BooleanChecks : results[k] = PyTrue) => out = <<SuccessLine>>

\* C5: check_dev_server hands back True exactly if the socket connected and
\* the GET returned status 200, and otherwise the boolean False together
\* with a printed message.
C5_DevServer ==
    (run_log # <<>> /\ Last(run_log) = "Dev Server") =>
        LET reachable == dev_in.sock = Connected /\ dev_in.get = Response(200)
        IN  /\ results["Dev Server"] = PyTrue <=> reachable
            /\ ~reachable => (results["Dev Server"] = PyFalse /\ out # <<>>)

\* C7: a check that raised is recorded as False, main() printed an error
\* line holding the exception text when it did, nothing propagated out of
\* main(), and once the loop is over the report has one entry for each of
\* the five checks.
C7_RaisingCheckRecordedFailed ==
    /\ spc # "crashed"
    /\ \A k \in raised_names : k \in DOMAIN results /\ results[k] = PyFalse
    /\ (last_outcome.raised /\ spc = "checks") =>
           /\ Last(run_log) \in raised_names
           /\ Len(out) = 1
           /\ out[1].level = "error"
           /\ \A i \in 1 .. Len(last_outcome.value) :
                  Contains(out[1].text, last_outcome.value[i])
    /\ spc \in {"template", "summary", "done"} => DOMAIN results = AllChecks

C7_Witness ==
    /\ spc = "done"
    /\ raised_names = {"OBS Configuration"}
    /\ results["OBS Configuration"] = PyFalse
    /\ DOMAIN results = AllChecks

FourKeys == {"video", "output", "audio", "browser_source"}

FullRun ==
    << "OBS Installation", "Hardware Encoding", "Dev Server",
       "OBS Configuration", "System Resources", "template", "summary" >>

\* C10: the steps of main() are always a prefix of: the five checks in their
\* fixed order, the template write, the summary; nothing a check returned or
\* raised and no failed write stops the run short, and every run reaches the
\* end of main() with all seven steps done once.
C10_FixedOrderAndTermination ==
    /\ [](/\ spc # "crashed"
          /\ Len(run_log) <= Len(FullRun)
          /\ run_log = SubSeq(FullRun, 1, Len(run_log))
          /\ spc = "done" <=> run_log = FullRun
          /\ spc = "template" <=> Len(run_log) = 5
          /\ spc = "summary" <=> Len(run_log) = 6)
    /\ <>(spc = "done" /\ setup_exit = <<0>>)

C10_Witness ==
    /\ spc = "done"
    /\ run_log = FullRun
    /\ write_in.kind = "dump"
    /\ raised_names # {}
    /\ results["OBS Installation"] = PyFalse

====
